---- MODULE Spec2Model ----
(***************************************************************************)
(* Model of the document ingestion pipeline of groove-chat                 *)
(* (src/src/lib/fileUploadHelper.ts): the four text extractors with their  *)
(* tiered sampling, processFileUpload and createFileMessageContent.        *)
(*                                                                         *)
(* A text is a sequence of segments.  A segment stands for one template    *)
(* literal the code appends (`text += ...`); its length and the phrases it *)
(* contains are computed from the literal and from the source unit (page,  *)
(* line, slice) it copies.  Numbers are exact: Math.floor(n * ratio) with  *)
(* ratio = MAX_CHARS / length is (n * MAX_CHARS) \div length.              *)
(***************************************************************************)
EXTENDS Integers, Sequences, FiniteSets, TLC

\* The sampler: the attached file, the processed document, the composed
\* message, and the position in the sequence attach / process / compose.
VARIABLES file, doc, content, pc

\* ChatInput (src/src/components/ChatInput.tsx): its React state, the file
\* dialog, the FileReaders still loading, the last run of handleFileSelect
\* and the calls of onSend.
VARIABLES attachedFile, readers, input, dialog, selected, sent

\* Chat (src/src/pages/Chat.tsx): its React state, the running sendMessage,
\* the messages table, the requests made, the storage bucket, and the last
\* response of the server's /api/process-document.
VARIABLES isLoading, selectedModel, currentConversationId, messages, call,
          dbMessages, requests, storage, response

\* Two processFileUpload calls in flight: the clock Date.now() reads, the
\* objects of the 'documents' bucket, and the two calls.
VARIABLES clock, bucket, calls

\* One extractPdfText call, page by page.
VARIABLES reading

samplerVars == <<file, doc, content, pc>>

inputVars == <<attachedFile, readers, input, dialog, selected, sent>>

chatVars == <<isLoading, selectedModel, currentConversationId, messages, call,
              dbMessages, requests, storage, response>>

uploadVars == <<clock, bucket, calls>>

vars == <<samplerVars, inputVars, chatVars, uploadVars, reading>>

(***************************************************************************)
(* Bounds of the model.                                                    *)
(***************************************************************************)
MaxPages == 20
MaxRows == 57
MaxSheets == 2

(***************************************************************************)
(* Program constants.                                                      *)
(***************************************************************************)
TARGET_TOKENS == 4000
MAX_CHARS == TARGET_TOKENS * 4

(***************************************************************************)
(* Arithmetic helpers.                                                     *)
(***************************************************************************)
Max(x, y) == IF x >= y THEN x ELSE y

\* Length of the decimal rendering of an integer inside a template literal.
NumLen(n) ==
  LET m == IF n < 0 THEN 0 - n ELSE n
      d == IF m < 10 THEN 1 ELSE IF m < 100 THEN 2 ELSE IF m < 1000 THEN 3
           ELSE IF m < 10000 THEN 4 ELSE IF m < 100000 THEN 5 ELSE 6
  IN IF n < 0 THEN d + 1 ELSE d

\* Math.floor(n * compressionRatio), compressionRatio = MAX_CHARS / fullLen.
FloorRatio(n, fullLen) == (n * MAX_CHARS) \div fullLen

\* compressionRatio > num / 10^k, as the tier tests compare it.
RatioAbove(fullLen, num, den) == MAX_CHARS * den > num * fullLen

(***************************************************************************)
(* Source units and segments.                                              *)
(***************************************************************************)
\* The phrases createFileMessageContent searches for.
Phrases == {"[Data truncated", "[Document truncated", "rows omitted", "Pages", "omitted"}

Unit(len, says) == [len |-> len, says |-> says]

\* What an out-of-range array read renders as in a template literal.
Undefined == Unit(9, {})

Seg(k, a, b, s) == [k |-> k, a |-> a, b |-> b, s |-> s]

NoSeg == Seg("none", 0, 0, 0)

Compact(segs) == SelectSeq(segs, LAMBDA x : x.k # "none")

\* The pages i, i+1, ..., j, as the for loops emit them (none when j < i).
Pages(i, j) == [x \in 1..(j - i + 1) |-> Seg("page", i + x - 1, 0, 0)]

\* The lines i, i+1, ..., j of sheet s, as the for loops emit them.
Rows(s, i, j) == [x \in 1..(j - i + 1) |-> Seg("line", i + x - 1, 0, s)]

(***************************************************************************)
(* Files.  pages: the page texts of a PDF; flat: the raw text of a Word    *)
(* document (says: the searched phrases it contains, at offset `at`);      *)
(* sheets: the worksheets of a workbook, each with its name length and the *)
(* lines of its CSV rendering; raw: the '\n'-separated lines of a CSV file *)
(* (len: trimmed length, pad: the white space trim() removes).             *)
(***************************************************************************)
NoFlat == [len |-> 0, says |-> {}, at |-> 0]

File(type, pages, flat, sheets, raw) ==
  [type |-> type, pages |-> pages, flat |-> flat, sheets |-> sheets, raw |-> raw]

NoFile == File("none", <<>>, NoFlat, <<>>, <<>>)

\* pageTexts[i - 1] inside a template literal.
PageText(f, i) == IF i \in 1..Len(f.pages) THEN f.pages[i] ELSE Undefined

\* text.split('\n').map(line => line.trim()).filter(line => line.length > 0)
CsvLines(raw) ==
  LET kept == SelectSeq(raw, LAMBDA r : r.len > 0)
  IN [i \in 1..Len(kept) |-> Unit(kept[i].len, kept[i].says)]

\* lines[i] inside a template literal; lines[0] is the header.  Sheet 0 is
\* the single implicit sheet of a CSV file.
SheetLines(f, s) == IF s = 0 THEN CsvLines(f.raw) ELSE f.sheets[s].lines

Line(f, s, i) ==
  LET lines == SheetLines(f, s)
  IN IF i \in 0..(Len(lines) - 1) THEN lines[i + 1] ELSE Undefined

\* The width the phrases of a unit occupy.
SaysLen(says) ==
  IF says = {} THEN 0
  ELSE IF "Pages" \in says THEN 13
  ELSE IF "rows omitted" \in says THEN 12
  ELSE 7

\* Length of the text a segment stands for.
SegLen(g, f) ==
  CASE g.k = "page" -> 16 + NumLen(g.a) + PageText(f, g.a).len
    [] g.k = "pagesOmitted" -> 30 + NumLen(g.a) + NumLen(g.b)
    [] g.k = "pdfShowing" -> 30 + NumLen(g.a) + NumLen(g.b)
    [] g.k = "sigOmitted" -> 39
    [] g.k = "pdfHeavy" -> 45 + NumLen(g.a)
    [] g.k = "slice" -> g.b - g.a
    [] g.k = "docxEnd" -> 37
    [] g.k = "docxMiddle" -> 36
    [] g.k = "docxHeavy" -> 62
    [] g.k = "sheetTitle" -> 8 + f.sheets[g.s].name
    [] g.k = "line" -> Line(f, g.s, g.a).len + 1
    [] g.k = "blank" -> 1
    [] g.k = "rowsEnd" -> 33 + NumLen(g.a)
    [] g.k = "rowsOmitted" -> 24 + NumLen(g.a)
    [] g.k = "dataOmitted" -> 35
    [] g.k = "sheetSummary" -> 43 + NumLen(g.a) + NumLen(g.b)
    [] g.k = "csvSummary" -> 40 + NumLen(g.a) + NumLen(g.b)
    [] g.k = "rawline" -> f.raw[g.a].len + f.raw[g.a].pad + g.b
    [] OTHER -> 0

\* The searched phrases the text of a segment contains.
SegSays(g, f) ==
  CASE g.k = "page" -> PageText(f, g.a).says
    [] g.k = "pagesOmitted" -> {"Pages", "omitted"}
    [] g.k = "sigOmitted" -> {"omitted"}
    [] g.k = "slice" ->
         IF g.a <= f.flat.at /\ f.flat.at + SaysLen(f.flat.says) <= g.b
         THEN f.flat.says ELSE {}
    [] g.k = "docxMiddle" -> {"omitted"}
    [] g.k = "docxHeavy" -> {"omitted"}
    [] g.k = "line" -> Line(f, g.s, g.a).says
    [] g.k = "rowsEnd" -> {"rows omitted", "omitted"}
    [] g.k = "rowsOmitted" -> {"rows omitted", "omitted"}
    [] g.k = "dataOmitted" -> {"omitted"}
    [] g.k = "rawline" -> f.raw[g.a].says
    [] OTHER -> {}

RECURSIVE TextLen(_, _)
\* text.length
TextLen(segs, f) ==
  IF segs = <<>> THEN 0 ELSE SegLen(Head(segs), f) + TextLen(Tail(segs), f)

\* text.includes(phrase)
Includes(segs, f, phrase) == \E i \in 1..Len(segs) : phrase \in SegSays(segs[i], f)

(***************************************************************************)
(* extractPdfText                                                          *)
(***************************************************************************)
PdfFullText(f) == Pages(1, Len(f.pages))

PdfLight(f, fullLen) ==
  LET totalPages == Len(f.pages)
      pagesToKeep == FloorRatio(totalPages, fullLen)
      skipStart == (totalPages * 4) \div 10
      skipEnd == skipStart + (totalPages - pagesToKeep)
      Step(i) == IF i >= skipStart /\ i < skipEnd
                 THEN IF i = skipStart
                      THEN Seg("pagesOmitted", skipStart, skipEnd - 1, 0)
                      ELSE NoSeg
                 ELSE Seg("page", i, 0, 0)
  IN Compact([i \in 1..totalPages |-> Step(i)])

\* PdfModerate with keepLast not reduced by the middle pages.
PdfModerate_LastNotReduced(f, fullLen) ==
  LET totalPages == Len(f.pages)
      pagesToKeep == FloorRatio(totalPages, fullLen)
      keepFirst == (pagesToKeep * 5) \div 10
      keepMiddle == (pagesToKeep * 2) \div 10
      keepLast == pagesToKeep - keepFirst
      middleStart == totalPages \div 2
      lastStart == totalPages - keepLast + 1
  IN <<Seg("pdfShowing", totalPages, pagesToKeep, 0)>>
     \o Pages(1, keepFirst)
     \o (IF keepMiddle > 0
         THEN <<Seg("pagesOmitted", keepFirst + 1, middleStart - 1, 0)>>
              \o Pages(middleStart, middleStart + keepMiddle - 1)
         ELSE <<>>)
     \o <<Seg("pagesOmitted", (totalPages \div 2) + keepMiddle, lastStart - 1, 0)>>
     \o Pages(lastStart, totalPages)

PdfModerate(f, fullLen) ==
  LET totalPages == Len(f.pages)
      pagesToKeep == FloorRatio(totalPages, fullLen)
      keepFirst == (pagesToKeep * 5) \div 10
      keepMiddle == (pagesToKeep * 2) \div 10
      keepLast == pagesToKeep - keepFirst - keepMiddle
      middleStart == totalPages \div 2
      lastStart == totalPages - keepLast + 1
  IN <<Seg("pdfShowing", totalPages, pagesToKeep, 0)>>
     \o Pages(1, keepFirst)
     \o (IF keepMiddle > 0
         THEN <<Seg("pagesOmitted", keepFirst + 1, middleStart - 1, 0)>>
              \o Pages(middleStart, middleStart + keepMiddle - 1)
         ELSE <<>>)
     \o <<Seg("pagesOmitted", (totalPages \div 2) + keepMiddle, lastStart - 1, 0)>>
     \o Pages(lastStart, totalPages)

\* PdfHeavy with the two middle pages centred on the midpoint.
PdfHeavy_Centred(f) ==
  LET totalPages == Len(f.pages)
      middleStart == (totalPages \div 2) - 1
  IN <<Seg("pdfHeavy", totalPages, 0, 0)>>
     \o Pages(1, 3)
     \o <<Seg("sigOmitted", 0, 0, 0)>>
     \o Pages(middleStart, middleStart + 1)
     \o <<Seg("sigOmitted", 0, 0, 0)>>
     \o Pages(totalPages - 2, totalPages)

PdfHeavy(f) ==
  LET totalPages == Len(f.pages)
      keepFirst == 3
      keepMiddle == 2
      keepLast == 3
      middleStart == totalPages \div 2
  IN <<Seg("pdfHeavy", totalPages, 0, 0)>>
     \o Pages(1, keepFirst)
     \o <<Seg("sigOmitted", 0, 0, 0)>>
     \o Pages(middleStart, middleStart + keepMiddle - 1)
     \o <<Seg("sigOmitted", 0, 0, 0)>>
     \o Pages(totalPages - keepLast + 1, totalPages)

\* The tier the paginated sampler applies.
PdfTier(fullLen) ==
  IF fullLen <= MAX_CHARS THEN "full"
  ELSE IF RatioAbove(fullLen, 7, 10) THEN "light"
  ELSE IF RatioAbove(fullLen, 4, 10) THEN "moderate"
  ELSE "heavy"

extractPdfText(f) ==
  LET fullText == PdfFullText(f)
      fullLen == TextLen(fullText, f)
      tier == PdfTier(fullLen)
  IN CASE tier = "full" -> fullText
       [] tier = "light" -> PdfLight(f, fullLen)
       [] tier = "moderate" -> PdfModerate(f, fullLen)
       [] OTHER -> PdfHeavy(f)

(***************************************************************************)
(* extractDocxText                                                         *)
(***************************************************************************)
\* DocxTier with the lower boundary at 0.5, as for tables.
DocxTier_TableBoundary(len) ==
  IF len <= MAX_CHARS THEN "full"
  ELSE IF RatioAbove(len, 85, 100) THEN "light"
  ELSE IF RatioAbove(len, 5, 10) THEN "moderate"
  ELSE "heavy"

DocxTier(len) ==
  IF len <= MAX_CHARS THEN "full"
  ELSE IF RatioAbove(len, 85, 100) THEN "light"
  ELSE IF RatioAbove(len, 6, 10) THEN "moderate"
  ELSE "heavy"

\* extractDocxText with a moderate tail of 30% of the text, not of the budget.
extractDocxText_TailOfText(f) ==
  LET len == f.flat.len
      tier == DocxTier(len)
  IN CASE tier = "full" -> IF len = 0 THEN <<>> ELSE <<Seg("slice", 0, len, 0)>>
       [] tier = "light" ->
            <<Seg("slice", 0, FloorRatio(len, len), 0), Seg("docxEnd", 0, 0, 0)>>
       [] tier = "moderate" ->
            <<Seg("slice", 0, (MAX_CHARS * 7) \div 10, 0),
              Seg("docxMiddle", 0, 0, 0),
              Seg("slice", len - ((len * 3) \div 10), len, 0)>>
       [] OTHER ->
            <<Seg("slice", 0, (MAX_CHARS * 5) \div 10, 0),
              Seg("docxHeavy", 0, 0, 0),
              Seg("slice", len - ((MAX_CHARS * 5) \div 10), len, 0)>>

extractDocxText(f) ==
  LET len == f.flat.len
      tier == DocxTier(len)
  IN CASE tier = "full" -> IF len = 0 THEN <<>> ELSE <<Seg("slice", 0, len, 0)>>
       [] tier = "light" ->
            <<Seg("slice", 0, FloorRatio(len, len), 0), Seg("docxEnd", 0, 0, 0)>>
       [] tier = "moderate" ->
            <<Seg("slice", 0, (MAX_CHARS * 7) \div 10, 0),
              Seg("docxMiddle", 0, 0, 0),
              Seg("slice", len - ((MAX_CHARS * 3) \div 10), len, 0)>>
       [] OTHER ->
            <<Seg("slice", 0, (MAX_CHARS * 5) \div 10, 0),
              Seg("docxHeavy", 0, 0, 0),
              Seg("slice", len - ((MAX_CHARS * 5) \div 10), len, 0)>>

(***************************************************************************)
(* extractExcelText and extractCsvText                                     *)
(***************************************************************************)
\* The tier the tabular samplers apply.
RowTier(fullLen) ==
  IF fullLen <= MAX_CHARS THEN "full"
  ELSE IF RatioAbove(fullLen, 85, 100) THEN "light"
  ELSE IF RatioAbove(fullLen, 5, 10) THEN "moderate"
  ELSE "heavy"

RowsLight(s, dataRows, targetRows) ==
  LET rowsToKeep == Max(targetRows, (dataRows * 85) \div 100)
  IN Rows(s, 1, rowsToKeep)
     \o (IF rowsToKeep < dataRows
         THEN <<Seg("rowsEnd", dataRows - rowsToKeep, 0, s)>>
         ELSE <<>>)

RowsModerate(s, dataRows, targetRows) ==
  LET keepFirst == (targetRows * 5) \div 10
      keepLast == (targetRows * 3) \div 10
      keepMiddle == targetRows - keepFirst - keepLast
      middleStart == (dataRows \div 2) - (keepMiddle \div 2)
      lastStart == dataRows - keepLast + 1
  IN Rows(s, 1, keepFirst)
     \o (IF keepMiddle > 0 /\ dataRows > keepFirst + keepLast + 20
         THEN <<Seg("rowsOmitted", middleStart - keepFirst - 1, 0, s)>>
              \o Rows(s, middleStart, middleStart + keepMiddle - 1)
         ELSE <<>>)
     \o (IF keepLast > 0
         THEN (IF lastStart > keepFirst + keepMiddle
               THEN <<Seg("rowsOmitted", lastStart - keepFirst - keepMiddle - 1, 0, s)>>
               ELSE <<>>)
              \o Rows(s, lastStart, dataRows)
         ELSE <<>>)

\* RowsHeavy with the middle share mistyped as 0.02.
RowsHeavy_NoMiddle(s, dataRows, targetRows) ==
  LET keepFirst == (targetRows * 4) \div 10
      keepMiddle == (targetRows * 2) \div 100
      keepLast == (targetRows * 4) \div 10
      middleStart == dataRows \div 2
  IN Rows(s, 1, keepFirst)
     \o <<Seg("dataOmitted", 0, 0, s)>>
     \o (IF keepMiddle > 0
         THEN Rows(s, middleStart, middleStart + keepMiddle - 1) \o <<Seg("dataOmitted", 0, 0, s)>>
         ELSE <<>>)
     \o Rows(s, dataRows - keepLast + 1, dataRows)

RowsHeavy(s, dataRows, targetRows) ==
  LET keepFirst == (targetRows * 4) \div 10
      keepMiddle == (targetRows * 2) \div 10
      keepLast == (targetRows * 4) \div 10
      middleStart == dataRows \div 2
  IN Rows(s, 1, keepFirst)
     \o <<Seg("dataOmitted", 0, 0, s)>>
     \o (IF keepMiddle > 0
         THEN Rows(s, middleStart, middleStart + keepMiddle - 1) \o <<Seg("dataOmitted", 0, 0, s)>>
         ELSE <<>>)
     \o Rows(s, dataRows - keepLast + 1, dataRows)

\* The if / else if / else chain over compressionRatio of one sheet.
SampleRows(s, dataRows, fullLen) ==
  LET targetRows == FloorRatio(dataRows, fullLen)
      tier == RowTier(fullLen)
  IN CASE tier = "light" -> RowsLight(s, dataRows, targetRows)
       [] tier = "moderate" -> RowsModerate(s, dataRows, targetRows)
       [] OTHER -> RowsHeavy(s, dataRows, targetRows)

RECURSIVE Flatten(_)
Flatten(parts) == IF parts = <<>> THEN <<>> ELSE Head(parts) \o Flatten(Tail(parts))

\* `Sheet: ${sheetName}\n${csvData}\n\n` of one sheet.
ExcelFullSheet(f, s) ==
  <<Seg("sheetTitle", 0, 0, s)>>
     \o Rows(s, 0, Len(f.sheets[s].lines) - 1)
     \o <<Seg("blank", 0, 0, s)>>

ExcelFullText(f) == Flatten([s \in 1..Len(f.sheets) |-> ExcelFullSheet(f, s)])

\* ExcelSheet with the header counted as a data row.
ExcelSheet_HeaderCounted(f, s, fullLen) ==
  LET lines == f.sheets[s].lines
      dataRows == Len(lines)
      targetRows == FloorRatio(dataRows, fullLen)
  IN <<Seg("sheetTitle", 0, 0, s)>>
     \o (IF Len(lines) > 0 THEN <<Seg("line", 0, 0, s)>> ELSE <<>>)
     \o (IF Len(lines) <= 1
         THEN <<Seg("blank", 0, 0, s)>>
         ELSE SampleRows(s, dataRows, fullLen)
              \o <<Seg("sheetSummary", dataRows, targetRows, s)>>)

\* The body of the second forEach, for one sheet.
ExcelSheet(f, s, fullLen) ==
  LET lines == f.sheets[s].lines
      dataRows == Len(lines) - 1
      targetRows == FloorRatio(dataRows, fullLen)
  IN <<Seg("sheetTitle", 0, 0, s)>>
     \o (IF Len(lines) > 0 THEN <<Seg("line", 0, 0, s)>> ELSE <<>>)
     \o (IF Len(lines) <= 1
         THEN <<Seg("blank", 0, 0, s)>>
         ELSE SampleRows(s, dataRows, fullLen)
              \o <<Seg("sheetSummary", dataRows, targetRows, s)>>)

extractExcelText(f) ==
  LET fullText == ExcelFullText(f)
      fullLen == TextLen(fullText, f)
  IN IF fullLen <= MAX_CHARS
     THEN fullText
     ELSE Flatten([s \in 1..Len(f.sheets) |-> ExcelSheet(f, s, fullLen)])

\* The raw text of a CSV file, line by line.
CsvRawText(f) ==
  [i \in 1..Len(f.raw) |-> Seg("rawline", i, IF i < Len(f.raw) THEN 1 ELSE 0, 0)]

extractCsvText(f) ==
  LET text == CsvRawText(f)
      textLen == TextLen(text, f)
      lines == CsvLines(f.raw)
      totalRows == Len(lines) - 1
      targetRows == FloorRatio(totalRows, textLen)
  IN IF textLen <= MAX_CHARS
     THEN text
     ELSE (IF Len(lines) > 0 THEN <<Seg("line", 0, 0, 0)>> ELSE <<>>)
          \o (IF Len(lines) <= 1
              THEN <<>>
              ELSE SampleRows(0, totalRows, textLen)
                   \o <<Seg("csvSummary", totalRows, targetRows, 0)>>)

(***************************************************************************)
(* processFileUpload and createFileMessageContent                          *)
(***************************************************************************)
NoDoc == [type |-> "none", text |-> <<>>]

\* The type dispatch of processFileUpload.
ExtractText(f) ==
  CASE f.type = "pdf" -> extractPdfText(f)
    [] f.type = "docx" -> extractDocxText(f)
    [] f.type = "excel" -> extractExcelText(f)
    [] f.type = "csv" -> extractCsvText(f)
    [] OTHER -> <<>>

ProcessedDocument(f) == [type |-> f.type, text |-> ExtractText(f)]

WasTruncated(d, f) ==
  \/ Includes(d.text, f, "[Data truncated")
  \/ Includes(d.text, f, "[Document truncated")
  \/ Includes(d.text, f, "rows omitted")
  \/ (Includes(d.text, f, "Pages") /\ Includes(d.text, f, "omitted"))

NoContent == [kind |-> "none", wasTruncated |-> FALSE, note |-> FALSE, question |-> FALSE]

\* createFileMessageContent without the branch for a document without text.
createFileMessageContent_NoFallback(userMessage, d, f) ==
  IF d.type = "image"
  THEN [kind |-> "image", wasTruncated |-> FALSE, note |-> FALSE, question |-> userMessage]
  ELSE [kind |-> "document", wasTruncated |-> WasTruncated(d, f),
        note |-> WasTruncated(d, f), question |-> userMessage]

createFileMessageContent(userMessage, d, f) ==
  IF d.type = "image"
  THEN [kind |-> "image", wasTruncated |-> FALSE, note |-> FALSE, question |-> userMessage]
  ELSE LET wasTruncated == WasTruncated(d, f)
       IN IF ~wasTruncated /\ TextLen(d.text, f) = 0
          THEN [kind |-> "fallback", wasTruncated |-> wasTruncated, note |-> FALSE,
                question |-> userMessage]
          ELSE [kind |-> "document", wasTruncated |-> wasTruncated, note |-> wasTruncated,
                question |-> userMessage]

(***************************************************************************)
(* The files a user can attach, within the bounds.  A document has units   *)
(* of one base length, and at most one odd unit with its own length that   *)
(* may contain phrases the truncation check searches for.                  *)
(***************************************************************************)
PageLens == {0, 900, 1500, 2650, 7000, 17000, 30000}
RowLens == {10, 300, 340, 900, 3000}
DocLens == {0, 100, 16000, 16001, 18823, 18824, 26666, 26667, 50000}
SaysChoices == {{}, {"rows omitted", "omitted"}, {"Pages", "omitted"}}
OddUnits == {Unit(40, {"rows omitted", "omitted"}), Unit(40, {"Pages", "omitted"}),
             Unit(17000, {}), Unit(17000, {"rows omitted", "omitted"})}

\* n units of the base length; unit k, if any, is the odd one.
Units(n, base, k, odd) == [i \in 1..n |-> IF i = k THEN odd ELSE Unit(base, {})]

PdfFiles ==
  UNION {{File("pdf", Units(n, base, k, odd), NoFlat, <<>>, <<>>) :
            base \in PageLens, k \in {0, 1, n \div 2, n}, odd \in OddUnits} : n \in 1..MaxPages}

DocxFiles ==
  UNION {{File("docx", <<>>, [len |-> l, says |-> says, at |-> at], <<>>, <<>>) :
            says \in {c \in SaysChoices : SaysLen(c) <= l},
            at \in {a \in {0, 9000, l - 13} : a >= 0 /\ a + 13 <= l}} : l \in DocLens}
  \cup {File("docx", <<>>, NoFlat, <<>>, <<>>)}

\* Where the odd row of a table with d data rows is, and what it is.
OddRows(d) == {<<0, Undefined>>, <<1, Unit(17000, {})>>, <<1, Unit(40, {"Pages", "omitted"})>>,
               <<d, Unit(40, {"rows omitted", "omitted"})>>,
               <<d, Unit(17000, {"rows omitted", "omitted"})>>}

\* A worksheet: the header line, then d data rows.
Sheet(header, d, base, o) ==
  [name |-> 6, lines |-> <<Unit(header, {})>> \o Units(d, base, o[1], o[2])]

SmallSheets == {Sheet(0, 0, 10, <<0, Undefined>>), Sheet(8, 3, 10, <<0, Undefined>>)}

ExcelFiles ==
  UNION {{File("excel", <<>>, NoFlat, <<Sheet(8, d, base, o)>> \o rest, <<>>) :
            base \in RowLens, o \in OddRows(d),
            rest \in {<<>>} \cup (IF MaxSheets >= 2 THEN {<<sh>> : sh \in SmallSheets} ELSE {})}
         : d \in 0..MaxRows}
  \cup (IF MaxSheets >= 3
        THEN {File("excel", <<>>, NoFlat,
                   [s \in 1..MaxSheets |-> Sheet(8, 3, 3000, <<0, Undefined>>)], <<>>)}
        ELSE {})

RawLine(u, pad) == [len |-> u.len, pad |-> pad, says |-> u.says]

\* A CSV file with LF line ends, or with CRLF line ends and a final newline.
CsvRaw(d, base, o, crlf) ==
  LET lines == <<Unit(8, {})>> \o Units(d, base, o[1], o[2])
  IN [i \in 1..(d + 1) |-> RawLine(lines[i], IF crlf THEN 1 ELSE 0)]
     \o (IF crlf THEN <<RawLine(Unit(0, {}), 0)>> ELSE <<>>)

CsvFiles ==
  UNION {{File("csv", <<>>, NoFlat, <<>>, CsvRaw(d, base, o, crlf)) :
            base \in RowLens, o \in OddRows(d), crlf \in BOOLEAN} : d \in 0..MaxRows}

ImageFiles == {File("image", <<>>, NoFlat, <<>>, <<>>)}

\* A worksheet with a header line and no data row.
HeaderOnly(len, says) == [name |-> 6, lines |-> <<Unit(len, says)>>]

\* Tables that are (or end with) a header and nothing else: a CSV file of
\* one line, a workbook of one such sheet, and a workbook whose long first
\* sheet is followed by such a sheet.
HeaderOnlyFiles ==
  {File("csv", <<>>, NoFlat, <<>>, <<RawLine(Unit(l, says), 0)>>) :
     l \in {20, 17000}, says \in SaysChoices}
  \cup {File("excel", <<>>, NoFlat, first \o <<HeaderOnly(20, says)>>, <<>>) :
          first \in {<<>>} \cup (IF MaxSheets >= 2
                                 THEN {<<Sheet(8, 40, 900, <<0, Undefined>>)>>}
                                 ELSE {}),
          says \in SaysChoices}

\* A CSV file of no bytes: file.text() is ''.
EmptyCsv == File("csv", <<>>, NoFlat, <<>>, <<>>)

Files ==
  PdfFiles \cup DocxFiles \cup ExcelFiles \cup CsvFiles \cup ImageFiles \cup HeaderOnlyFiles
  \cup {EmptyCsv}

\* The same document with every unit shorter than l grown to l: a later,
\* longer revision with the same number of pages or rows.
GrowUnits(units, from, l) ==
  [i \in 1..Len(units) |->
     IF i >= from /\ units[i].len < l THEN Unit(l, units[i].says) ELSE units[i]]

Revision(f, l) ==
  CASE f.type = "pdf" -> [f EXCEPT !.pages = GrowUnits(f.pages, 1, l)]
    [] f.type = "excel" ->
         [f EXCEPT !.sheets = [s \in 1..Len(f.sheets) |->
            [f.sheets[s] EXCEPT !.lines = GrowUnits(f.sheets[s].lines, 2, l)]]]
    [] f.type = "csv" ->
         [f EXCEPT !.raw = [i \in 1..Len(f.raw) |->
            IF i >= 2 /\ f.raw[i].len > 0 /\ f.raw[i].len < l
            THEN [f.raw[i] EXCEPT !.len = l] ELSE f.raw[i]]]
    [] OTHER -> f

Revisions(f) ==
  {Revision(f, l) : l \in IF f.type = "pdf" THEN PageLens ELSE RowLens} \ {f}

(***************************************************************************)
(* The state machine: a file is attached, processFileUpload extracts its   *)
(* text, createFileMessageContent composes the message (sendMessage in     *)
(* src/src/pages/Chat.tsx calls them in this order).                       *)
(***************************************************************************)
(***************************************************************************)
(* Initial values of the state of ChatInput, Chat, the concurrent uploads  *)
(* and the page reader.                                                    *)
(***************************************************************************)
\* attachedFile = null.  An attachment is the file with the number of the
\* selection that chose it.
NoAttachment == [id |-> 0, file |-> NoFile]

\* No run of handleFileSelect yet.
NoSelection == [id |-> 0, file |-> NoFile, large |-> FALSE, outcome |-> "none"]

\* No sendMessage has run.
NoCall ==
  [pc |-> "idle", turn |-> 0, text |-> FALSE, file |-> NoAttachment, model |-> "chat",
   conv |-> 0, extracted |-> NoDoc, doc |-> NoDoc, content |-> NoContent, toast |-> "none"]

NoResponse == [mimetype |-> "none", status |-> 0, type |-> "none"]

NoUpload ==
  [pc |-> "idle", user |-> 0, name |-> 0, env |-> "ok", timestamp |-> 0, result |-> "none"]

NoReading ==
  [pc |-> "idle", file |-> NoFile, i |-> 0, page |-> FALSE, pageTexts |-> 0,
   fullLen |-> 0, tier |-> "none", text |-> <<>>]

Init ==
  /\ file = NoFile
  /\ doc = NoDoc
  /\ content = NoContent
  /\ pc = "idle"
  /\ attachedFile = NoAttachment
  /\ readers = {}
  /\ input = FALSE
  /\ dialog = FALSE
  /\ selected = NoSelection
  /\ sent = <<>>
  /\ isLoading = FALSE
  /\ selectedModel = "chat"
  /\ currentConversationId = 0
  /\ messages = {}
  /\ call = NoCall
  /\ dbMessages = {}
  /\ requests = {}
  /\ storage = {}
  /\ response = NoResponse
  /\ clock = 0
  /\ bucket = {}
  /\ calls = [c \in 1..2 |-> NoUpload]
  /\ reading = NoReading

Attach ==
  /\ pc = "idle"
  /\ \E f \in Files : file' = f
  /\ pc' = "attached"
  /\ UNCHANGED <<doc, content, inputVars, chatVars, uploadVars, reading>>

\* processFileUpload returns the processed document ...
ProcessFileUpload ==
  /\ pc = "attached"
  /\ doc' = ProcessedDocument(file)
  /\ pc' = "processed"
  /\ UNCHANGED <<file, content, inputVars, chatVars, uploadVars, reading>>

\* ... or throws: no session, or the storage upload failed.
ProcessFileUploadFails ==
  /\ pc = "attached"
  /\ file' = NoFile
  /\ pc' = "failed"
  /\ UNCHANGED <<doc, content, inputVars, chatVars, uploadVars, reading>>

\* processFileUpload on a longer revision of the processed document.
ProcessRevisedUpload ==
  /\ pc = "processed"
  /\ file.type \in {"pdf", "excel", "csv"}
  /\ \E g \in Revisions(file) :
       /\ file' = g
       /\ doc' = ProcessedDocument(g)
  /\ UNCHANGED <<content, pc, inputVars, chatVars, uploadVars, reading>>

CreateFileMessageContent(userMessage) ==
  /\ pc = "processed"
  /\ content' = createFileMessageContent(userMessage, doc, file)
  /\ pc' = "composed"
  /\ UNCHANGED <<file, doc, inputVars, chatVars, uploadVars, reading>>

Next ==
  \/ Attach
  \/ ProcessFileUpload
  \/ ProcessFileUploadFails
  \/ ProcessRevisedUpload
  \/ \E userMessage \in BOOLEAN : CreateFileMessageContent(userMessage)

Spec == Init /\ [][Next]_vars

(***************************************************************************)
(* Vocabulary of the properties.                                           *)
(***************************************************************************)
IsMarker(g) ==
  g.k \in {"pagesOmitted", "sigOmitted", "docxEnd", "docxMiddle", "docxHeavy",
           "rowsEnd", "rowsOmitted", "dataOmitted"}

IsSummary(g) == g.k \in {"pdfShowing", "pdfHeavy", "sheetSummary", "csvSummary"}

Markers(text) == SelectSeq(text, IsMarker)

Summaries(text) == SelectSeq(text, IsSummary)

\* The full extraction of a file and its length, before any sampling.
FullText(f) ==
  CASE f.type = "pdf" -> PdfFullText(f)
    [] f.type = "docx" -> IF f.flat.len = 0 THEN <<>> ELSE <<Seg("slice", 0, f.flat.len, 0)>>
    [] f.type = "excel" -> ExcelFullText(f)
    [] f.type = "csv" -> CsvRawText(f)
    [] OTHER -> <<>>

FullLen(f) == TextLen(FullText(f), f)

Tier(f) ==
  CASE f.type = "pdf" -> PdfTier(FullLen(f))
    [] f.type = "docx" -> DocxTier(FullLen(f))
    [] f.type \in {"excel", "csv"} -> RowTier(FullLen(f))
    [] OTHER -> "full"

IsDocument(f) == f.type \in {"pdf", "docx", "excel", "csv"}

\* The page numbers emitted, in output order.
PageNums(text) ==
  LET sel == SelectSeq(text, LAMBDA g : g.k = "page")
  IN [i \in 1..Len(sel) |-> sel[i].a]

\* The data rows of sheet s emitted, in output order.
RowNums(text, s) ==
  LET sel == SelectSeq(text, LAMBDA g : g.k = "line" /\ g.s = s /\ g.a # 0)
  IN [i \in 1..Len(sel) |-> sel[i].a]

\* The sheets of a tabular file (0: the implicit sheet of a CSV file).
SheetIds(f) == IF f.type = "csv" THEN {0} ELSE 1..Len(f.sheets)

Range(seq) == {seq[i] : i \in 1..Len(seq)}

\* The number of pages of the document that the text includes.
IncludedPages(text, f) == Cardinality(Range(PageNums(text)) \cap (1..Len(f.pages)))

\* The number of data rows of sheet s that the text includes.
IncludedRows(text, f, s) ==
  IF s \in SheetIds(f)
  THEN Cardinality(Range(RowNums(text, s)) \cap (1..(Len(SheetLines(f, s)) - 1)))
  ELSE 0

Distinct(seq) == \A i, j \in 1..Len(seq) : i # j => seq[i] # seq[j]

Increasing(seq) == \A i \in 1..(Len(seq) - 1) : seq[i] < seq[i + 1]

\* floor(100 * compressionRatio)
RatioPercent(f) == (MAX_CHARS * 100) \div FullLen(f)

Extracted == pc \in {"processed", "composed"}

(***************************************************************************)
(* C1.  Budget invariant, paginated documents: the text extractPdfText     *)
(* returns is no longer than the character budget plus the length of the   *)
(* markers and the summary line it contains, in every tier.                *)
(***************************************************************************)
C1_PdfWithinBudget ==
  (Extracted /\ file.type = "pdf") =>
    TextLen(doc.text, file)
      <= MAX_CHARS + TextLen(Markers(doc.text), file) + TextLen(Summaries(doc.text), file)

(***************************************************************************)
(* C2.  Budget invariant, tabular documents: the text extractExcelText or  *)
(* extractCsvText returns is no longer than the character budget plus the  *)
(* length of the markers (and summary lines) it contains.                  *)
(***************************************************************************)
C2_RowsWithinBudget ==
  (Extracted /\ file.type \in {"excel", "csv"}) =>
    TextLen(doc.text, file)
      <= MAX_CHARS + TextLen(Markers(doc.text), file) + TextLen(Summaries(doc.text), file)

(***************************************************************************)
(* C3.  No-op on inputs that fit: when the full extraction is within the   *)
(* budget, the extractor returns it unchanged, without marker or summary   *)
(* line, and the composed message has wasTruncated = false and no note.    *)
(***************************************************************************)
C3_FitsIsNoOp ==
  (pc = "composed" /\ IsDocument(file) /\ FullLen(file) <= MAX_CHARS) =>
    /\ doc.text = FullText(file)
    /\ Markers(doc.text) = <<>>
    /\ Summaries(doc.text) = <<>>
    /\ ~content.wasTruncated
    /\ ~content.note

(***************************************************************************)
(* C4.  Truncation is always disclosed: when the extractor applied the     *)
(* light, moderate or heavy tier, the composed message has                 *)
(* wasTruncated = true and carries the disclosure note.                    *)
(***************************************************************************)
C4_SamplingDisclosed ==
  (pc = "composed" /\ IsDocument(file) /\ Tier(file) # "full" /\ Markers(doc.text) # <<>>) =>
    /\ content.wasTruncated
    /\ content.note

(***************************************************************************)
(* C5.  Monotonic inclusion: when a document is processed again with the   *)
(* same number of pages (rows) and a larger total length, the number of    *)
(* pages (rows of each sheet) included does not increase.                  *)
(***************************************************************************)
C5_MonotonicInclusion ==
  [][(pc = "processed" /\ pc' = "processed") =>
       /\ IncludedPages(doc'.text, file') <= IncludedPages(doc.text, file)
       /\ \A s \in 0..MaxSheets :
            file.type \in {"excel", "csv"} =>
              IncludedRows(doc'.text, file', s) <= IncludedRows(doc.text, file, s)]_vars

(***************************************************************************)
(* C6.  No page is emitted twice by the paginated sampler, whatever the    *)
(* page count.                                                             *)
(***************************************************************************)
C6_NoPageTwice ==
  (Extracted /\ file.type = "pdf") => Distinct(PageNums(doc.text))

(***************************************************************************)
(* C7.  Order preservation for rows: the data rows the Excel and CSV       *)
(* samplers emit for a sheet have strictly increasing source row indices.  *)
(***************************************************************************)
C7_RowsInSourceOrder ==
  (Extracted /\ file.type \in {"excel", "csv"}) =>
    \A s \in SheetIds(file) : Increasing(RowNums(doc.text, s))

(***************************************************************************)
(* C8.  Header preservation: for every sheet (and for a CSV file) with a   *)
(* non-empty header, the header row is emitted before any data row of the  *)
(* sheet, in every tier, and the row counts of the summary line (dataRows, *)
(* targetRows) do not count it.                                            *)
(***************************************************************************)
\* The positions of the text that render the header of sheet s.
HeaderPositions(text, f, s) ==
  {p \in 1..Len(text) :
     \/ text[p].k = "line" /\ text[p].s = s /\ text[p].a = 0
     \/ /\ text[p].k = "rawline" /\ s = 0 /\ f.raw[text[p].a].len > 0
        /\ \A q \in 1..(text[p].a - 1) : f.raw[q].len = 0}

\* The positions of the text that render a data row of sheet s.
DataPositions(text, f, s) ==
  {p \in 1..Len(text) :
     \/ text[p].k = "line" /\ text[p].s = s /\ text[p].a # 0
     \/ /\ text[p].k = "rawline" /\ s = 0 /\ f.raw[text[p].a].len > 0
        /\ \E q \in 1..(text[p].a - 1) : f.raw[q].len > 0}

HasHeader(f, s) == Len(SheetLines(f, s)) > 0 /\ Line(f, s, 0).len > 0

C9_ScenarioC ==
  (Extracted /\ file.type = "pdf" /\ Len(file.pages) = 20 /\ Tier(file) = "heavy") =>
    /\ PageNums(doc.text) = <<1, 2, 3, 10, 11, 18, 19, 20>>
    /\ Len(Markers(doc.text)) = 2

C9_Witness ==
  /\ Extracted /\ file.type = "pdf" /\ Len(file.pages) = 20
  /\ RatioPercent(file) \in {29, 30}
  /\ Len(PageNums(doc.text)) = 8

(***************************************************************************)
(* C10.  Scenario A: for a single sheet with a header and 50 data rows at  *)
(* the compression ratio of the scenario (200 / 574, between 0.3 and 0.4), *)
(* the output is the header, a first, a middle and a last row group        *)
(* separated by exactly two omission markers, then the summary line        *)
(* '[Total rows in sheet: 50, Rows included: N]'.                          *)
(***************************************************************************)
ScenarioA(f) ==
  /\ f.type = "excel" /\ Len(f.sheets) = 1
  /\ Len(f.sheets[1].lines) = 51 /\ HasHeader(f, 1)
  /\ RatioPercent(f) \in 30..40

IsHeaderOnly(f, s) == Len(SheetLines(f, s)) = 1 /\ HasHeader(f, s)

C11_HeaderOnlySheet ==
  (pc = "composed" /\ file.type \in {"excel", "csv"}) =>
    \A s \in SheetIds(file) :
      IsHeaderOnly(file, s) =>
        /\ HeaderPositions(doc.text, file, s) # {}
        /\ \A i \in 1..Len(doc.text) :
             doc.text[i].s = s => ~IsMarker(doc.text[i]) /\ ~IsSummary(doc.text[i])
        /\ (SheetIds(file) = {s} => ~content.wasTruncated)

(***************************************************************************)
(* C12.  Single-unit safety path: for a PDF of exactly one page whose      *)
(* extraction exceeds the budget, the output holds the text of that page   *)
(* cut to the budget (the page is neither dropped nor returned whole) and  *)
(* a marker noting the truncation.                                         *)
(***************************************************************************)
C12_SinglePageCut ==
  (Extracted /\ file.type = "pdf" /\ Len(file.pages) = 1 /\ FullLen(file) > MAX_CHARS) =>
    /\ 1 \in Range(PageNums(doc.text))
    /\ TextLen(doc.text, file)
         <= MAX_CHARS + TextLen(Markers(doc.text), file) + TextLen(Summaries(doc.text), file)
    /\ Markers(doc.text) # <<>>

(***************************************************************************)
(* C13.  Summary line on every sampled linear document: when a PDF or a    *)
(* Word document is sampled (light, moderate or heavy tier), the output    *)
(* begins with a summary line that states the total unit count and the     *)
(* kept unit count.                                                        *)
(***************************************************************************)
\* The summary lines that state both counts: '[PDF: n pages, showing m
\* pages]'.  '[PDF: n pages, heavily sampled to fit limits]' states one.
StatesBothCounts(g) == g.k = "pdfShowing"

C13_SummaryLineFirst ==
  (Extracted /\ file.type \in {"pdf", "docx"} /\ Tier(file) # "full") =>
    /\ doc.text # <<>>
    /\ IsSummary(doc.text[1])
    /\ StatesBothCounts(doc.text[1])
    /\ (file.type = "pdf" => doc.text[1].a = Len(file.pages))

(***************************************************************************)
(* C14.  Per-sheet summary is accurate: for every sampled sheet with at    *)
(* least one data row, in every tier, a summary line follows the content   *)
(* of the sheet and states totalRows = the number of data rows of the      *)
(* sheet (header excluded) and includedRows = the number of data rows      *)
(* emitted for the sheet.                                                  *)
(***************************************************************************)
C14_SummaryAccurate ==
  (Extracted /\ file.type \in {"excel", "csv"} /\ Tier(file) # "full") =>
    \A s \in SheetIds(file) :
      Len(SheetLines(file, s)) > 1 =>
        \E i \in 1..Len(doc.text) :
          /\ doc.text[i].k \in {"sheetSummary", "csvSummary"} /\ doc.text[i].s = s
          /\ \A q \in DataPositions(doc.text, file, s) : q < i
          /\ doc.text[i].a = Len(SheetLines(file, s)) - 1
          /\ doc.text[i].b = Len(RowNums(doc.text, s))

(***************************************************************************)
(* C19: neutral fallback for an empty extraction.  When the text of a      *)
(* processed non-image document is empty, createFileMessageContent returns *)
(* the fallback content (the user's message if there is one, otherwise the *)
(* fixed prompt), not a "Document content:" block and without the sampling *)
(* note.                                                                   *)
(***************************************************************************)
C19_NeutralFallback ==
  (pc = "composed" /\ IsDocument(file) /\ TextLen(doc.text, file) = 0) =>
    /\ content.kind = "fallback"
    /\ ~content.wasTruncated
    /\ ~content.note

\* A Word document without text was composed with no user message: the
\* content is the fixed prompt.
C19_Witness ==
  /\ pc = "composed"
  /\ file \in {EmptyCsv} \cup DocxFiles
  /\ TextLen(doc.text, file) = 0
  /\ content.kind = "fallback"
  /\ ~content.question

(***************************************************************************)
(* C21: the light tier of the paginated and of the flat sampler keeps a    *)
(* prefix.  The text is the first pages (the first characters) of the      *)
(* extraction, nothing is kept after the omitted part, and exactly one     *)
(* omission marker follows, at the end.                                    *)
(***************************************************************************)
C21_LightKeepsPrefix ==
  (Extracted /\ file.type \in {"pdf", "docx"} /\ Tier(file) = "light") =>
    LET n == Len(doc.text)
    IN /\ n >= 1
       /\ IsMarker(doc.text[n])
       /\ Len(Markers(doc.text)) = 1
       /\ file.type = "pdf" => \A i \in 1..(n - 1) : doc.text[i] = Seg("page", i, 0, 0)
       /\ file.type = "docx" => n = 2 /\ doc.text[1].k = "slice" /\ doc.text[1].a = 0

\* The numbers i..j in ascending order.
FromTo(i, j) == [x \in 1..(j - i + 1) |-> i + x - 1]

\* Every step of the text from one page to a page that is not the next one
\* passes a marker, and so does the start when the first page is not page 1.
MarkerAtEachGap(text) ==
  \A i \in 1..Len(text) :
    text[i].k = "page" =>
      LET before == {j \in 1..(i - 1) : text[j].k = "page"}
          last == IF before = {} THEN 0 ELSE CHOOSE j \in before : \A x \in before : x <= j
          from == IF last = 0 THEN 0 ELSE text[last].a
      IN text[i].a # from + 1 => \E m \in (last + 1)..(i - 1) : IsMarker(text[m])

(***************************************************************************)
(* C22: the moderate tier of the paginated sampler.  With pagesToKeep =    *)
(* floor(totalPages * ratio) the text holds exactly pagesToKeep distinct   *)
(* pages in ascending order: the first floor(0.5 * pagesToKeep) pages,     *)
(* floor(0.2 * pagesToKeep) consecutive pages from page                    *)
(* floor(totalPages / 2), and the rest from the end; a marker stands at    *)
(* each gap, and the summary line's shown count is the number of pages     *)
(* emitted.                                                                *)
(***************************************************************************)
C22_ModeratePages ==
  (Extracted /\ file.type = "pdf" /\ Tier(file) = "moderate") =>
    LET totalPages == Len(file.pages)
        pagesToKeep == FloorRatio(totalPages, FullLen(file))
        keepFirst == (pagesToKeep * 5) \div 10
        keepMiddle == (pagesToKeep * 2) \div 10
        keepLast == pagesToKeep - keepFirst - keepMiddle
        middleStart == totalPages \div 2
        nums == PageNums(doc.text)
    IN /\ nums = FromTo(1, keepFirst)
                   \o FromTo(middleStart, middleStart + keepMiddle - 1)
                   \o FromTo(totalPages - keepLast + 1, totalPages)
       /\ Len(nums) = pagesToKeep
       /\ Distinct(nums)
       /\ Increasing(nums)
       /\ MarkerAtEachGap(doc.text)
       /\ doc.text[1].k = "pdfShowing"
       /\ doc.text[1].b = Len(nums)

\* A moderate PDF with first, middle and last pages kept.
C22_Witness ==
  /\ Extracted
  /\ file.type = "pdf"
  /\ Tier(file) = "moderate"
  /\ FloorRatio(Len(file.pages), FullLen(file)) >= 5
  /\ Len(PageNums(doc.text)) = FloorRatio(Len(file.pages), FullLen(file))

(***************************************************************************)
(* C23: the middle-region guard of the moderate tabular tier.  On every    *)
(* sheet with data rows the rows emitted are the first region, then the    *)
(* middle region if and only if keepMiddle > 0 and dataRows > keepFirst +  *)
(* keepLast + 20, then the last region; an emitted middle region starts at *)
(* row floor(dataRows / 2) - floor(keepMiddle / 2) and lies strictly       *)
(* between the first and the last region, overlapping neither.             *)
(***************************************************************************)
C23_MiddleGuard ==
  (Extracted /\ file.type \in {"excel", "csv"} /\ Tier(file) = "moderate") =>
    \A s \in SheetIds(file) :
      Len(SheetLines(file, s)) > 1 =>
        LET dataRows == Len(SheetLines(file, s)) - 1
            targetRows == FloorRatio(dataRows, FullLen(file))
            keepFirst == (targetRows * 5) \div 10
            keepLast == (targetRows * 3) \div 10
            keepMiddle == targetRows - keepFirst - keepLast
            middleStart == (dataRows \div 2) - (keepMiddle \div 2)
            lastStart == dataRows - keepLast + 1
            guard == keepMiddle > 0 /\ dataRows > keepFirst + keepLast + 20
        IN /\ RowNums(doc.text, s)
                = FromTo(1, keepFirst)
                    \o (IF guard THEN FromTo(middleStart, middleStart + keepMiddle - 1)
                        ELSE <<>>)
                    \o FromTo(lastStart, dataRows)
           /\ guard => keepFirst < middleStart /\ middleStart + keepMiddle - 1 < lastStart

\* The tier a sampled text shows: for a PDF and a Word document by its
\* summary line or marker, for sheet s of a table by the marker only its
\* tier writes (s is 0 for a PDF, a Word document and a CSV file).
ShownTier(text, f, s) ==
  LET Has(k) == \E i \in 1..Len(text) : text[i].k = k /\ text[i].s = s
  IN CASE f.type = "pdf" ->
            IF Has("pdfHeavy") THEN "heavy" ELSE IF Has("pdfShowing") THEN "moderate"
            ELSE "light"
       [] f.type = "docx" ->
            IF Has("docxHeavy") THEN "heavy" ELSE IF Has("docxMiddle") THEN "moderate"
            ELSE IF Has("docxEnd") THEN "light" ELSE "none"
       [] OTHER ->
            IF Has("dataOmitted") THEN "heavy" ELSE IF Has("rowsEnd") THEN "light"
            ELSE "moderate"

\* The tier the boundaries hi and lo (in hundredths) give for a length.
TierByRatio(fullLen, hi, lo) ==
  IF RatioAbove(fullLen, hi, 100) THEN "light"
  ELSE IF RatioAbove(fullLen, lo, 100) THEN "moderate"
  ELSE "heavy"

\* The tier of a file that does not fit, by the boundaries of its shape.
ExpectedTier(f) ==
  CASE f.type = "pdf" -> TierByRatio(FullLen(f), 70, 40)
    [] f.type = "docx" -> TierByRatio(FullLen(f), 85, 60)
    [] OTHER -> TierByRatio(FullLen(f), 85, 50)

\* The parts of a file that are sampled: the sheets with data rows, or the
\* document as a whole.
SampledParts(f) ==
  IF f.type \in {"excel", "csv"}
  THEN {s \in SheetIds(f) : Len(SheetLines(f, s)) > 1}
  ELSE {0}

TierRank(tier) == CASE tier = "light" -> 1 [] tier = "moderate" -> 2 [] OTHER -> 3

(***************************************************************************)
(* C24: tier selection by ratio.  A document that does not fit is sampled  *)
(* in the one tier its ratio budget / totalLength gives: paginated light   *)
(* above 0.7, moderate above 0.4, else heavy; flat 0.85 and 0.6; tabular   *)
(* and delimited 0.85 and 0.5.  Every sheet of a workbook is sampled in    *)
(* the same tier with the same ratio, and when the document is processed   *)
(* again with a larger length the tier moves only towards heavy.           *)
(***************************************************************************)
C24_TierSelection ==
  /\ [](Extracted /\ IsDocument(file) /\ FullLen(file) > MAX_CHARS =>
          \A s \in SampledParts(file) :
            /\ ShownTier(doc.text, file, s) = ExpectedTier(file)
            /\ file.type \in {"excel", "csv"} =>
                 \E i \in 1..Len(doc.text) :
                   /\ doc.text[i].k \in {"sheetSummary", "csvSummary"}
                   /\ doc.text[i].s = s
                   /\ doc.text[i].b = FloorRatio(Len(SheetLines(file, s)) - 1, FullLen(file)))
  /\ [][(pc = "processed" /\ pc' = "processed"
           /\ FullLen(file) > MAX_CHARS /\ FullLen(file') >= FullLen(file)) =>
          \A s \in SampledParts(file) :
            TierRank(ShownTier(doc'.text, file', s)) >= TierRank(ShownTier(doc.text, file, s))]_vars

\* A workbook of two sheets with data rows, both sampled in the heavy tier.
C24_Witness ==
  /\ pc = "processed"
  /\ file.type = "excel"
  /\ Cardinality(SampledParts(file)) = 2
  /\ \A s \in SampledParts(file) : ShownTier(doc.text, file, s) = "heavy"

\* The slices of the source string a text holds, in output order.
Slices(text) == SelectSeq(text, LAMBDA g : g.k = "slice")

(***************************************************************************)
(* C25: flat documents stay within the budget with disjoint slices.  For a *)
(* Word document longer than the budget, in every tier: the characters     *)
(* kept are at most the budget; the slices lie inside the source string,   *)
(* in source order, and do not overlap; in the moderate tier they are the  *)
(* leading 70% and the trailing 30% of the budget, in the heavy tier 50%   *)
(* and 50%; there is one marker and the text is no longer than the budget  *)
(* plus that marker.                                                       *)
(***************************************************************************)
C25_FlatWithinBudget ==
  (Extracted /\ file.type = "docx" /\ FullLen(file) > MAX_CHARS) =>
    LET len == file.flat.len
        slices == Slices(doc.text)
        tier == ShownTier(doc.text, file, 0)
    IN /\ TextLen(slices, file) <= MAX_CHARS
       /\ \A i \in 1..Len(slices) : 0 <= slices[i].a /\ slices[i].a < slices[i].b
                                      /\ slices[i].b <= len
       /\ \A i \in 1..(Len(slices) - 1) : slices[i].b <= slices[i + 1].a
       /\ tier = "light" => Len(slices) = 1 /\ slices[1].a = 0
       /\ tier = "moderate" =>
            /\ Len(slices) = 2
            /\ slices[1].a = 0 /\ slices[1].b = (MAX_CHARS * 70) \div 100
            /\ slices[2].b = len /\ slices[2].b - slices[2].a = (MAX_CHARS * 30) \div 100
       /\ tier = "heavy" =>
            /\ Len(slices) = 2
            /\ slices[1].a = 0 /\ slices[1].b = MAX_CHARS \div 2
            /\ slices[2].b = len /\ slices[2].b - slices[2].a = MAX_CHARS \div 2
       /\ Len(Markers(doc.text)) = 1
       /\ TextLen(doc.text, file) <= MAX_CHARS + TextLen(Markers(doc.text), file)

\* A Word document just over the moderate boundary: its two slices are
\* 2824 characters apart.
C25_Witness ==
  /\ Extracted
  /\ file.type = "docx"
  /\ file.flat.len = 18824
  /\ Len(Slices(doc.text)) = 2
  /\ Slices(doc.text)[2].a - Slices(doc.text)[1].b = 2824

\* The data row of sheet s emitted last before position i of the text (0 if
\* none), and the one emitted first after it (dataRows + 1 if none).
RowBefore(text, s, i) ==
  LET at == {j \in 1..(i - 1) : text[j].k = "line" /\ text[j].s = s /\ text[j].a # 0}
  IN IF at = {} THEN 0 ELSE text[CHOOSE j \in at : \A x \in at : x <= j].a

RowAfter(text, s, i, dataRows) ==
  LET at == {j \in (i + 1)..Len(text) : text[j].k = "line" /\ text[j].s = s /\ text[j].a # 0}
  IN IF at = {} THEN dataRows + 1 ELSE text[CHOOSE j \in at : \A x \in at : j <= x].a

\* The positions of the row-count markers of sheet s.
RowMarkers(text, s) ==
  {i \in 1..Len(text) : text[i].k \in {"rowsEnd", "rowsOmitted"} /\ text[i].s = s}

RECURSIVE SumOmitted(_, _)
SumOmitted(text, at) ==
  IF at = {} THEN 0
  ELSE LET i == CHOOSE x \in at : TRUE IN text[i].a + SumOmitted(text, at \ {i})

(***************************************************************************)
(* C26: row-count markers are truthful.  In the light and moderate tiers   *)
(* of the Excel and CSV samplers every '[N rows omitted]' marker has       *)
(* N >= 0, N is the number of source rows skipped at its gap, and the sum  *)
(* of N over the markers of a sheet is the sheet's number of data rows     *)
(* minus the number of rows emitted.                                       *)
(***************************************************************************)
C26_RowMarkersTruthful ==
  (Extracted /\ file.type \in {"excel", "csv"} /\ Tier(file) \in {"light", "moderate"}) =>
    \A s \in SampledParts(file) :
      LET dataRows == Len(SheetLines(file, s)) - 1
      IN /\ \A i \in RowMarkers(doc.text, s) :
              /\ doc.text[i].a >= 0
              /\ doc.text[i].a = RowAfter(doc.text, s, i, dataRows)
                                   - RowBefore(doc.text, s, i) - 1
         /\ SumOmitted(doc.text, RowMarkers(doc.text, s))
              = dataRows - Len(RowNums(doc.text, s))

\* The pages the '[Pages a to b omitted]' markers of a text name.
PagesReportedOmitted(text) ==
  UNION {text[i].a..text[i].b : i \in {j \in 1..Len(text) : text[j].k = "pagesOmitted"}}

(***************************************************************************)
(* C27: page-range markers are truthful.  In the light and moderate tiers  *)
(* of the paginated sampler every '[Pages a to b omitted]' marker has      *)
(* 1 <= a <= b <= totalPages, and the ranges together are exactly the      *)
(* pages that are not emitted.                                             *)
(***************************************************************************)
C27_PageMarkersTruthful ==
  (Extracted /\ file.type = "pdf" /\ Tier(file) \in {"light", "moderate"}) =>
    LET totalPages == Len(file.pages)
    IN /\ \A i \in 1..Len(doc.text) :
            doc.text[i].k = "pagesOmitted" =>
              /\ 1 <= doc.text[i].a
              /\ doc.text[i].a <= doc.text[i].b
              /\ doc.text[i].b <= totalPages
       /\ PagesReportedOmitted(doc.text) = (1..totalPages) \ Range(PageNums(doc.text))

(***************************************************************************)
(* C28: emitted page numbers are valid.  For every page count and tier,    *)
(* each page the paginated sampler emits has a number in 1..totalPages     *)
(* (its text is then the text extracted for that page: no read outside     *)
(* pageTexts, no 'Page 0', no page beyond the last).                       *)
(***************************************************************************)
C28_PageNumbersValid ==
  (Extracted /\ file.type = "pdf") =>
    \A i \in 1..Len(doc.text) :
      doc.text[i].k = "page" =>
        /\ doc.text[i].a \in 1..Len(file.pages)
        /\ SegLen(doc.text[i], file) = 16 + NumLen(doc.text[i].a) + file.pages[doc.text[i].a].len

(***************************************************************************)
(* ChatInput: selecting, removing and submitting an attachment.  SpecInput *)
(* is ChatInput against any parent: the props disabled and allowFileUpload *)
(* change at any time, and the calls of onSend are logged in `sent`.  The  *)
(* server's /api/process-document, the other way a file can be handed in,  *)
(* is part of it.                                                          *)
(***************************************************************************)
MaxSelections == 2
MaxSends == 2

\* The file types with a branch in processFileUpload.
ExtractorTypes == {"image", "pdf", "docx", "excel", "csv"}

\* allowedTypes of handleFileSelect, with 'other' let through.
AllowedTypes_WithOther == {"image", "pdf", "docx", "excel", "csv", "other"}

\* allowedTypes of handleFileSelect.
AllowedTypes == {"image", "pdf", "docx", "excel", "csv"}

\* A file getFileType maps to 'other'.
OtherFile == File("other", <<>>, NoFlat, <<>>, <<>>)

\* The files offered in the file dialog: an image, a one-page PDF, a Word
\* document without text, and a file of an unsupported type.
ChatFiles ==
  ImageFiles
  \cup {File("pdf", Units(1, 900, 0, Undefined), NoFlat, <<>>, <<>>),
        File("docx", <<>>, NoFlat, <<>>, <<>>),
        OtherFile}

\* const fileType = getFileType(file)
getFileType(f) == f.type

\* What handleFileSelect does with the file: the title of the toast it
\* shows, or "reading" (a FileReader is started), or "attached".
SelectOutcome(f, large) ==
  IF getFileType(f) \notin AllowedTypes THEN "Unsupported file type"
  ELSE IF getFileType(f) = "image"
       THEN (IF large THEN "Image too large" ELSE "reading")
       ELSE (IF large THEN "File too large" ELSE "attached")

\* The attach button: onClick={() => fileInputRef.current?.click()}.
OpenFileDialog ==
  /\ ~dialog
  /\ selectedModel # "image-generator"
  /\ ~(isLoading \/ attachedFile # NoAttachment)
  /\ selected.id < MaxSelections
  /\ dialog' = TRUE
  /\ UNCHANGED <<attachedFile, readers, input, selected, sent>>
  /\ UNCHANGED <<samplerVars, chatVars, uploadVars, reading>>

\* onChange of the file input.
HandleFileSelect ==
  /\ dialog
  /\ \E f \in ChatFiles, large \in BOOLEAN :
       LET id == selected.id + 1
           outcome == SelectOutcome(f, large)
       IN /\ selected' = [id |-> id, file |-> f, large |-> large, outcome |-> outcome]
          /\ readers' = IF outcome = "reading"
                        THEN readers \cup {[id |-> id, file |-> f]}
                        ELSE readers
          /\ attachedFile' = IF outcome = "attached"
                             THEN [id |-> id, file |-> f]
                             ELSE attachedFile
  /\ dialog' = FALSE
  /\ UNCHANGED <<input, sent>>
  /\ UNCHANGED <<samplerVars, chatVars, uploadVars, reading>>

\* reader.onloadend
ReaderLoadEnd ==
  /\ readers # {}
  /\ \E r \in readers :
       /\ attachedFile' = r
       /\ readers' = readers \ {r}
  /\ UNCHANGED <<input, dialog, selected, sent>>
  /\ UNCHANGED <<samplerVars, chatVars, uploadVars, reading>>

\* onRemove={() => setAttachedFile(null)}
RemoveAttachment ==
  /\ ~dialog
  /\ attachedFile # NoAttachment
  /\ attachedFile' = NoAttachment
  /\ UNCHANGED <<readers, input, dialog, selected, sent>>
  /\ UNCHANGED <<samplerVars, chatVars, uploadVars, reading>>

\* onChange of the text area: input.trim() becomes empty or non-empty.
SetInput ==
  /\ ~dialog
  /\ ~isLoading
  /\ input' = ~input
  /\ UNCHANGED <<attachedFile, readers, dialog, selected, sent>>
  /\ UNCHANGED <<samplerVars, chatVars, uploadVars, reading>>

\* handleSubmit leaves the attachment in place.
AfterSubmit_Kept(a) == a

\* setAttachedFile(null) at the end of handleSubmit.
AfterSubmit(a) == NoAttachment

\* handleSubmit: onSend(input.trim(), attachedFile || undefined), then the
\* input and the attachment are reset.
HandleSubmit ==
  /\ ~dialog
  /\ (input \/ attachedFile # NoAttachment) /\ ~isLoading
  /\ Len(sent) < MaxSends
  /\ sent' = Append(sent, [text |-> input, file |-> attachedFile])
  /\ input' = FALSE
  /\ attachedFile' = AfterSubmit(attachedFile)
  /\ UNCHANGED <<readers, dialog, selected>>
  /\ UNCHANGED <<samplerVars, chatVars, uploadVars, reading>>

\* The parent renders ChatInput with another value of disabled.
DisabledChanges ==
  /\ isLoading' = ~isLoading
  /\ UNCHANGED <<selectedModel, currentConversationId, messages, call, dbMessages,
                 requests, storage, response>>
  /\ UNCHANGED <<samplerVars, inputVars, uploadVars, reading>>

\* onSelectModel of the sidebar (allowFileUpload follows selectedModel).
SelectModel ==
  /\ ~dialog
  /\ selectedModel' = IF selectedModel = "chat" THEN "image-generator" ELSE "chat"
  /\ messages' = {}
  /\ currentConversationId' = 0
  /\ UNCHANGED <<isLoading, call, dbMessages, requests, storage, response>>
  /\ UNCHANGED <<samplerVars, inputVars, uploadVars, reading>>

\* The mimetypes posted to the server's /api/process-document: two with a
\* branch in processDocument and one without.
MimeTypes == {"image", "pdf", "other"}

\* processDocument of server/utils/documentProcessor.js: the type of the
\* document it returns, or "none" when it throws.
processDocument(mimetype, ok) ==
  IF mimetype \in {"image", "pdf", "docx", "excel"} /\ (ok \/ mimetype = "image")
  THEN mimetype
  ELSE "none"

\* POST /api/process-document
PostProcessDocument ==
  /\ \E mimetype \in MimeTypes, ok \in BOOLEAN :
       LET type == processDocument(mimetype, ok)
       IN response' = [mimetype |-> mimetype,
                       status |-> IF type = "none" THEN 500 ELSE 200,
                       type |-> type]
  /\ UNCHANGED <<isLoading, selectedModel, currentConversationId, messages, call,
                 dbMessages, requests, storage>>
  /\ UNCHANGED <<samplerVars, inputVars, uploadVars, reading>>

NextInput ==
  \/ OpenFileDialog
  \/ HandleFileSelect
  \/ ReaderLoadEnd
  \/ RemoveAttachment
  \/ SetInput
  \/ HandleSubmit
  \/ DisabledChanges
  \/ SelectModel
  \/ PostProcessDocument

SpecInput == Init /\ [][NextInput]_vars

\* The types of the files ChatInput holds or has handed to onSend, and of
\* the files its readers are loading.
HeldTypes ==
  {attachedFile.file.type}
  \cup {r.file.type : r \in readers}
  \cup {sent[i].file.file.type : i \in 1..Len(sent)}

(***************************************************************************)
(* C15: a file of a type without an extractor is refused with an error and *)
(* no document is made of it: handleFileSelect answers it with the toast   *)
(* "Unsupported file type" and never attaches it, so it is never handed to *)
(* onSend (the only way to processFileUpload and to the model); the        *)
(* server's processDocument answers it with an error and no document.      *)
(***************************************************************************)
C15_UnsupportedRefused ==
  /\ (selected.id > 0 /\ getFileType(selected.file) \notin ExtractorTypes)
       => selected.outcome = "Unsupported file type"
  /\ HeldTypes \subseteq ExtractorTypes \cup {"none"}
  /\ (response # NoResponse /\ response.mimetype \notin {"image", "pdf", "docx", "excel"})
       => response.status = 500 /\ response.type = "none"

\* An unsupported file was selected and refused, a message was sent after
\* it, and the server has refused an unsupported upload.
C15_Witness ==
  /\ selected.file = OtherFile
  /\ selected.outcome = "Unsupported file type"
  /\ attachedFile = NoAttachment
  /\ Len(sent) >= 1
  /\ response.mimetype = "other"
  /\ response.status = 500

\* The ids of the selections handed to onSend.
SentIds == {sent[i].file.id : i \in 1..Len(sent)} \ {0}

(***************************************************************************)
(* C20: one file per message.  ChatInput holds at most one attachment,     *)
(* each call of onSend carries at most one, and a submitted attachment is  *)
(* gone from the input: no selection is handed to onSend twice, and the    *)
(* selection that is attached or still being read was never sent.          *)
(***************************************************************************)
C20_OneFilePerMessage ==
  /\ attachedFile \in {NoAttachment} \cup [id : 1..selected.id, file : ChatFiles]
  /\ \A i \in 1..Len(sent) :
       sent[i].file \in {NoAttachment} \cup [id : 1..selected.id, file : ChatFiles]
  /\ \A i, j \in 1..Len(sent) :
       (i # j /\ sent[i].file # NoAttachment) => sent[i].file.id # sent[j].file.id
  /\ attachedFile.id \notin SentIds
  /\ \A r \in readers : r.id \notin SentIds

\* Two messages were sent, each with its own file, and the input holds no
\* attachment.
C20_Witness ==
  /\ Len(sent) = 2
  /\ sent[1].file # NoAttachment
  /\ sent[2].file # NoAttachment
  /\ attachedFile = NoAttachment

(***************************************************************************)
(* Chat: sendMessage, started by ChatInput's onSend, step by step at its   *)
(* awaits.  SpecChat is Chat with a ChatInput that hands over any text and *)
(* any file that handleFileSelect lets through.                            *)
(***************************************************************************)

\* The files ChatInput can hand to onSend: those handleFileSelect attaches,
\* directly or through its FileReader.
Sendable == {f \in ChatFiles : SelectOutcome(f, FALSE) \in {"reading", "attached"}}

\* onSend={sendMessage} with disabled={isLoading}: the start of sendMessage,
\* up to setIsLoading(true) and the choice of modelToUse.
SendMessage ==
  /\ ~isLoading
  /\ call.turn < MaxSends
  /\ \E text \in BOOLEAN, f \in {NoFile} \cup Sendable :
       /\ text \/ f # NoFile
       /\ call' = [NoCall EXCEPT !.pc = "start",
                                 !.turn = call.turn + 1,
                                 !.text = text,
                                 !.file = IF f = NoFile THEN NoAttachment
                                          ELSE [id |-> call.turn + 1, file |-> f],
                                 !.model = selectedModel]
  /\ isLoading' = TRUE
  /\ UNCHANGED <<selectedModel, currentConversationId, messages, dbMessages, requests,
                 storage, response>>
  /\ UNCHANGED <<samplerVars, inputVars, uploadVars, reading>>

\* sendMessage returns: its locals are gone; the turn, where it returned and
\* the toast it showed remain.
Return(c, at, toast) == [NoCall EXCEPT !.pc = at, !.turn = c.turn, !.toast = toast]

\* messagesForAI.length > 20 ? messagesForAI.slice(-20) : messagesForAI
CONTEXT_LIMIT == 20

\* The numbers of messages of the stored conversations a user can open.
HistorySizes == {CONTEXT_LIMIT}

\* The id of a conversation row that is created next.
NewConversationId ==
  LET used == {r.conv : r \in dbMessages} \cup {currentConversationId, call.conv}
  IN 1 + CHOOSE m \in used : \A x \in used : x <= m

\* The messages of a conversation stored by earlier sessions: questions and
\* answers in turn, the newest an answer.
History(conv, h) ==
  {[conv |-> conv, turn |-> 0 - ((k + 1) \div 2),
    role |-> IF k % 2 = 1 THEN "assistant" ELSE "user",
    content |-> IF k % 2 = 1 THEN "answer" ELSE "text"] : k \in 1..h}

\* onSelectConversation: navigate(`/chat/${id}`); the route effect sets
\* currentConversationId and loadMessages shows the stored messages.  The
\* rows of the conversation enter the model when it is opened.
LoadConversation ==
  /\ \A r \in dbMessages : r.turn > 0
  /\ \E h \in HistorySizes :
       LET id == NewConversationId
       IN /\ dbMessages' = dbMessages \cup History(id, h)
          /\ messages' = {[turn |-> r.turn, role |-> r.role] : r \in History(id, h)}
          /\ currentConversationId' = id
  /\ selectedModel' = "chat"
  /\ UNCHANGED <<isLoading, call, requests, storage, response>>
  /\ UNCHANGED <<samplerVars, inputVars, uploadVars, reading>>

\* sendMessage: the conversation is created if there is none, then the
\* user message is shown (setMessages) before any processing.
EnsureConversation ==
  /\ call.pc = "start" /\ call.model = "chat"
  /\ \E ok \in {TRUE} \cup (IF currentConversationId = 0 THEN {FALSE} ELSE {}) :
       IF ok
       THEN /\ currentConversationId' = IF currentConversationId = 0
                                         THEN NewConversationId
                                         ELSE currentConversationId
            /\ messages' = messages \cup {[turn |-> call.turn, role |-> "user"]}
            /\ call' = [call EXCEPT !.pc = IF call.file # NoAttachment
                                            THEN "getSession" ELSE "insertUser",
                                    !.conv = IF currentConversationId = 0
                                             THEN NewConversationId
                                             ELSE currentConversationId]
            /\ UNCHANGED isLoading
       ELSE /\ call' = Return(call, "returned", "Error")
            /\ isLoading' = FALSE
            /\ UNCHANGED <<currentConversationId, messages>>
  /\ UNCHANGED <<selectedModel, dbMessages, requests, storage, response>>
  /\ UNCHANGED <<samplerVars, inputVars, uploadVars, reading>>

\* The catch of sendMessage around processFileUpload, without its return.
UploadCatch_NoReturn(c) == [c EXCEPT !.pc = "insertUser", !.toast = "File Processing Error"]

\* The catch of sendMessage around processFileUpload: toast, return.
UploadCatch(c) == Return(c, "failed", "File Processing Error")

\* processFileUpload: await supabase.auth.getSession()
GetSession ==
  /\ call.pc = "getSession"
  /\ \E session \in BOOLEAN :
       /\ call' = IF session THEN [call EXCEPT !.pc = "extract"] ELSE UploadCatch(call)
       /\ isLoading' = IF session THEN isLoading ELSE FALSE
  /\ UNCHANGED <<selectedModel, currentConversationId, messages, dbMessages, requests,
                 storage, response>>
  /\ UNCHANGED <<samplerVars, inputVars, uploadVars, reading>>

\* processFileUpload: await compressImage(...) or await extract...Text(...)
AwaitExtraction ==
  /\ call.pc = "extract"
  /\ \E ok \in BOOLEAN :
       /\ call' = IF ok
                  THEN [call EXCEPT !.pc = "upload",
                                    !.extracted = ProcessedDocument(call.file.file)]
                  ELSE UploadCatch(call)
       /\ isLoading' = IF ok THEN isLoading ELSE FALSE
  /\ UNCHANGED <<selectedModel, currentConversationId, messages, dbMessages, requests,
                 storage, response>>
  /\ UNCHANGED <<samplerVars, inputVars, uploadVars, reading>>

\* processFileUpload: await supabase.storage.from('documents').upload(...),
\* the return, and createFileMessageContent in sendMessage.
AwaitStorageUpload ==
  /\ call.pc = "upload"
  /\ \E ok \in BOOLEAN :
       /\ call' = IF ok
                  THEN [call EXCEPT !.pc = "insertUser",
                                    !.doc = call.extracted,
                                    !.content = createFileMessageContent(
                                                  call.text, call.extracted, call.file.file)]
                  ELSE UploadCatch(call)
       /\ storage' = IF ok
                     THEN storage \cup {[turn |-> call.turn, type |-> call.file.file.type]}
                     ELSE storage
       /\ isLoading' = IF ok THEN isLoading ELSE FALSE
  /\ UNCHANGED <<selectedModel, currentConversationId, messages, dbMessages, requests,
                 response>>
  /\ UNCHANGED <<samplerVars, inputVars, uploadVars, reading>>

\* sendMessage: await supabase.from("messages").insert({... role: "user" ...})
InsertUserMessage ==
  /\ call.pc = "insertUser"
  /\ \E ok \in BOOLEAN :
       IF ok
       THEN /\ dbMessages' = dbMessages \cup {[conv |-> call.conv, turn |-> call.turn,
                                                role |-> "user", content |-> "text"]}
            /\ call' = [call EXCEPT !.pc = "chat"]
            /\ UNCHANGED isLoading
       ELSE /\ call' = Return(call, "returned", "Error")
            /\ isLoading' = FALSE
            /\ UNCHANGED dbMessages
  /\ UNCHANGED <<selectedModel, currentConversationId, messages, requests, storage, response>>
  /\ UNCHANGED <<samplerVars, inputVars, uploadVars, reading>>

\* The rows of a set in the order of created_at: stored history first, then
\* turn by turn, the user's message before the answer.
RECURSIVE Ordered(_)
Ordered(rows) ==
  IF rows = {} THEN <<>>
  ELSE LET Key(r) == 2 * r.turn + (IF r.role = "assistant" THEN 1 ELSE 0)
           first == CHOOSE r \in rows : \A x \in rows : Key(r) <= Key(x)
       IN <<first>> \o Ordered(rows \ {first})

\* select("role, content").eq("conversation_id", conversationId)
\*   .order("created_at", { ascending: true }), mapped to { role, content }.
SelectMessages(conv) ==
  LET rows == Ordered({r \in dbMessages : r.conv = conv})
  IN [i \in 1..Len(rows) |->
        [turn |-> rows[i].turn, role |-> rows[i].role, content |-> rows[i].content]]

\* actualContent: the typed text, or with a file the content made by
\* createFileMessageContent.
ActualContent(c) == IF c.file = NoAttachment THEN "text" ELSE c.content.kind

\* seq.slice(-n)
LastN(seq, n) == IF Len(seq) > n THEN SubSeq(seq, Len(seq) - n + 1, Len(seq)) ELSE seq

\* sendMessage without its finally block.
Finally_Missing(loading) == loading

\* finally { setIsLoading(false) }
Finally(loading) == FALSE

\* sendMessage: the stored messages are loaded, the new message is pushed,
\* the list is cut to its last 20, then the POST to /api/chat, the streamed
\* answer, the insert of the assistant message, finally setIsLoading(false).
FetchChat ==
  /\ call.pc = "chat"
  /\ \E loaded \in BOOLEAN :
       LET messagesForAI ==
             (IF loaded THEN SelectMessages(call.conv) ELSE <<>>)
               \o <<[turn |-> call.turn, role |-> "user", content |-> ActualContent(call)]>>
       IN requests' = requests \cup {[turn |-> call.turn, to |-> "/api/chat",
                                       kind |-> call.content.kind, doc |-> call.doc.type,
                                       list |-> LastN(messagesForAI, CONTEXT_LIMIT)]}
  /\ \E ok \in BOOLEAN :
       IF ok
       THEN /\ messages' = messages \cup {[turn |-> call.turn, role |-> "assistant"]}
            /\ dbMessages' = dbMessages \cup {[conv |-> call.conv, turn |-> call.turn,
                                                role |-> "assistant", content |-> "answer"]}
            /\ call' = Return(call, "done", "none")
       ELSE /\ call' = Return(call, "done", "Error")
            /\ UNCHANGED <<messages, dbMessages>>
  /\ isLoading' = Finally(isLoading)
  /\ UNCHANGED <<selectedModel, currentConversationId, storage, response>>
  /\ UNCHANGED <<samplerVars, inputVars, uploadVars, reading>>

\* sendMessage in image-generator mode: handleImageGeneration(content); the
\* file passed to sendMessage is not used.
HandleImageGeneration ==
  /\ call.pc = "start" /\ call.model = "image-generator"
  /\ \E outcome \in {"ok", "error"}
                    \cup (IF currentConversationId = 0 THEN {"noConversation"} ELSE {}) :
       IF outcome = "noConversation"
       THEN /\ call' = Return(call, "returned", "Error")
            /\ UNCHANGED <<currentConversationId, messages, dbMessages, requests>>
       ELSE LET conv == IF currentConversationId = 0 THEN NewConversationId
                        ELSE currentConversationId
            IN /\ currentConversationId' = conv
               /\ requests' = requests \cup {[turn |-> call.turn, to |-> "groq",
                                               kind |-> "none", doc |-> "none",
                                               list |-> <<>>]}
               /\ messages' = messages \cup {[turn |-> call.turn, role |-> "user"]}
                    \cup (IF outcome = "ok"
                          THEN {[turn |-> call.turn, role |-> "assistant"]} ELSE {})
               /\ dbMessages' = dbMessages
                    \cup {[conv |-> conv, turn |-> call.turn, role |-> "user",
                           content |-> "text"]}
                    \cup (IF outcome = "ok"
                          THEN {[conv |-> conv, turn |-> call.turn, role |-> "assistant",
                                 content |-> "answer"]}
                          ELSE {})
            /\ call' = Return(call, "done", IF outcome = "ok" THEN "none" ELSE "Error")
  /\ isLoading' = Finally(isLoading)
  /\ UNCHANGED <<selectedModel, storage, response>>
  /\ UNCHANGED <<samplerVars, inputVars, uploadVars, reading>>

NextChat ==
  \/ SendMessage
  \/ SelectModel
  \/ LoadConversation
  \/ EnsureConversation
  \/ GetSession
  \/ AwaitExtraction
  \/ AwaitStorageUpload
  \/ InsertUserMessage
  \/ FetchChat
  \/ HandleImageGeneration

SpecChat == Init /\ [][NextChat]_vars

\* The rows a set of records holds for a turn.
OfTurn(rows, turn) == {r \in rows : r.turn = turn}

(***************************************************************************)
(* C16: all or nothing.  When processFileUpload fails for the attached     *)
(* file (no session, extraction or storage upload failed), sendMessage has *)
(* no processed document, stores nothing for the file, persists no message *)
(* of that turn and sends no request of that turn to a model service.      *)
(***************************************************************************)
C16_AllOrNothing ==
  call.toast = "File Processing Error" =>
    /\ call.doc = NoDoc
    /\ call.content = NoContent
    /\ OfTurn(storage, call.turn) = {}
    /\ OfTurn(dbMessages, call.turn) = {}
    /\ OfTurn(requests, call.turn) = {}

\* The second message's file failed to process: the message is on screen,
\* nothing of it is persisted or sent, and the first turn's rows are there.
C16_Witness ==
  /\ call.toast = "File Processing Error"
  /\ call.turn = 2
  /\ OfTurn(messages, 2) # {}
  /\ OfTurn(dbMessages, 1) # {}
  /\ OfTurn(requests, 1) # {}
  /\ ~isLoading

(***************************************************************************)
(* C29: the new user turn reaches the model exactly once.  In every        *)
(* request sendMessage posts to /api/chat, the message list holds the      *)
(* just-sent user turn exactly once, as its last element and with the      *)
(* document-enhanced content when a file is attached; the list has at most *)
(* 20 elements; and every persisted user message holds the typed text      *)
(* only.                                                                   *)
(***************************************************************************)
C29_NewTurnOnce ==
  /\ \A r \in requests :
       r.to = "/api/chat" =>
         LET n == Len(r.list)
             new == {i \in 1..n : r.list[i].turn = r.turn /\ r.list[i].role = "user"}
         IN /\ Cardinality(new) = 1
            /\ n > 0
            /\ r.list[n] = [turn |-> r.turn, role |-> "user",
                            content |-> IF r.kind = "none" THEN "text" ELSE r.kind]
            /\ n <= CONTEXT_LIMIT
  /\ \A m \in dbMessages : m.role = "user" => m.content = "text"

\* The parts of C29 other than "exactly once".
C29_LastWithinLimitTextOnly ==
  /\ \A r \in requests :
       r.to = "/api/chat" =>
         /\ Len(r.list) \in 1..CONTEXT_LIMIT
         /\ r.list[Len(r.list)] = [turn |-> r.turn, role |-> "user",
                                    content |-> IF r.kind = "none" THEN "text" ELSE r.kind]
  /\ \A m \in dbMessages : m.role = "user" => m.content = "text"

(***************************************************************************)
(* sendMessage under fair scheduling: a promise that sendMessage awaits    *)
(* settles, fulfilled or rejected, and the event loop then runs the        *)
(* continuation, so no step that is waiting stays waiting for ever.  A     *)
(* call waits at one await at a time: Continue is the step after it.  What *)
(* the user does (sending, choosing a model, opening a conversation) is    *)
(* under no obligation.                                                    *)
(***************************************************************************)
Continue ==
  \/ EnsureConversation
  \/ GetSession
  \/ AwaitExtraction
  \/ AwaitStorageUpload
  \/ InsertUserMessage
  \/ FetchChat
  \/ HandleImageGeneration

\* The executions of sendMessage in the conversations it creates itself.
\* Opening a stored conversation is left to SpecChat: loadMessages neither
\* reads nor writes isLoading, and a running call keeps its conversationId.
NextSend ==
  \/ SendMessage
  \/ SelectModel
  \/ EnsureConversation
  \/ GetSession
  \/ AwaitExtraction
  \/ AwaitStorageUpload
  \/ InsertUserMessage
  \/ FetchChat
  \/ HandleImageGeneration

SpecChatFair == Init /\ [][NextSend]_vars /\ WF_vars(Continue)

(***************************************************************************)
(* C30: the loading state always clears.  Every execution of sendMessage   *)
(* that sets isLoading to true, on the chat path or the image-generation   *)
(* path, with or without a file, whichever of its steps fails, eventually  *)
(* sets isLoading back to false.                                           *)
(***************************************************************************)
C30_LoadingClears == isLoading ~> ~isLoading

\* The request to the model failed inside the try of sendMessage, and the
\* input is enabled again.
C30_Witness ==
  /\ call.pc = "done"
  /\ call.toast = "Error"
  /\ OfTurn(requests, call.turn) # {}
  /\ ~isLoading

(***************************************************************************)
(* extractPdfText step by step at its awaits.  SpecRead is one call of it: *)
(* the first pass reads the pages one after another, each with two awaits  *)
(* (pdf.getPage, page.getTextContent); the sampler runs after the loop.    *)
(***************************************************************************)
MaxReadPages == 3

\* The PDFs read page by page.
ReadFiles == {f \in PdfFiles : Len(f.pages) <= MaxReadPages}

\* The loop of the first pass ends one page early.
LoopDone_OffByOne(i, totalPages) == i >= totalPages

\* for (let i = 1; i <= totalPages; i++): the exit test.
LoopDone(i, totalPages) == i > totalPages

\* extractPdfText(file) is called: await file.arrayBuffer().
StartRead ==
  /\ reading.pc = "idle"
  /\ \E f \in ReadFiles : reading' = [NoReading EXCEPT !.pc = "arrayBuffer", !.file = f]
  /\ UNCHANGED <<samplerVars, inputVars, chatVars, uploadVars>>

\* await pdfjsLib.getDocument({ data }).promise
GetDocument ==
  /\ reading.pc = "arrayBuffer"
  /\ reading' = [reading EXCEPT !.pc = "getDocument"]
  /\ UNCHANGED <<samplerVars, inputVars, chatVars, uploadVars>>

\* totalPages = pdf.numPages; fullText = ''; pageTexts = []; i = 1
EnterLoop ==
  /\ reading.pc = "getDocument"
  /\ reading' = [reading EXCEPT !.pc = "loop", !.i = 1]
  /\ UNCHANGED <<samplerVars, inputVars, chatVars, uploadVars>>

\* const page = await pdf.getPage(i)
GetPage ==
  /\ reading.pc = "loop"
  /\ ~reading.page
  /\ ~LoopDone(reading.i, Len(reading.file.pages))
  /\ reading' = [reading EXCEPT !.page = TRUE]
  /\ UNCHANGED <<samplerVars, inputVars, chatVars, uploadVars>>

\* const content = await page.getTextContent(); pageTexts.push(pageText);
\* fullText += `\n--- Page ${i} ---\n${pageText}\n`; i++
GetTextContent ==
  /\ reading.pc = "loop"
  /\ reading.page
  /\ reading' = [reading EXCEPT
                   !.page = FALSE,
                   !.pageTexts = @ + 1,
                   !.fullLen = @ + SegLen(Seg("page", reading.i, 0, 0), reading.file),
                   !.i = @ + 1]
  /\ UNCHANGED <<samplerVars, inputVars, chatVars, uploadVars>>

\* After the loop: the fit check, the compression ratio, the tier and the
\* returned text, all from fullText.length as accumulated.
Sample ==
  /\ reading.pc = "loop"
  /\ ~reading.page
  /\ LoopDone(reading.i, Len(reading.file.pages))
  /\ LET tier == PdfTier(reading.fullLen)
     IN reading' = [reading EXCEPT
                      !.pc = "returned",
                      !.tier = tier,
                      !.text = CASE tier = "full" -> Pages(1, reading.pageTexts)
                                 [] tier = "light" -> PdfLight(reading.file, reading.fullLen)
                                 [] tier = "moderate" -> PdfModerate(reading.file, reading.fullLen)
                                 [] OTHER -> PdfHeavy(reading.file)]
  /\ UNCHANGED <<samplerVars, inputVars, chatVars, uploadVars>>

\* One of the awaited promises rejects: extractPdfText throws.
ReadRejects ==
  /\ reading.pc \in {"arrayBuffer", "getDocument"}
       \/ (reading.pc = "loop" /\ ~LoopDone(reading.i, Len(reading.file.pages)))
  /\ reading' = [reading EXCEPT !.pc = "failed"]
  /\ UNCHANGED <<samplerVars, inputVars, chatVars, uploadVars>>

NextRead ==
  \/ StartRead
  \/ GetDocument
  \/ EnterLoop
  \/ GetPage
  \/ GetTextContent
  \/ Sample
  \/ ReadRejects

SpecRead == Init /\ [][NextRead]_vars

(***************************************************************************)
(* C17: sampling never starts on a partial extraction.  A tier is decided  *)
(* and a text returned only when every page of the document has been read  *)
(* and fullText holds all of them; while a page is unread, or after a      *)
(* failed read, there is neither a tier nor a text; and the text returned  *)
(* is the sampler's text for the whole document.                           *)
(***************************************************************************)
C17_NoPartialSampling ==
  /\ (reading.tier # "none" \/ reading.text # <<>> \/ reading.pc = "returned") =>
       /\ reading.pc = "returned"
       /\ reading.pageTexts = Len(reading.file.pages)
       /\ reading.fullLen = FullLen(reading.file)
       /\ reading.tier = Tier(reading.file)
       /\ reading.text = extractPdfText(reading.file)
  /\ reading.pageTexts < Len(reading.file.pages) =>
       reading.tier = "none" /\ reading.text = <<>>

\* A three-page PDF that does not fit was read to the end and sampled.
C17_Witness ==
  /\ reading.pc = "returned"
  /\ Len(reading.file.pages) = 3
  /\ reading.pageTexts = 3
  /\ reading.tier \in {"light", "moderate", "heavy"}

(***************************************************************************)
(* processFileUpload, two calls at a time.  SpecUploads runs two calls     *)
(* step by step at their awaits against one clock (Date.now(), in          *)
(* milliseconds) and one storage bucket.                                   *)
(***************************************************************************)
MaxClock == 2

\* The two calls.
Calls == {1, 2}

\* The signed-in users and the names of the uploaded files.
Users == {1, 2}
Names == {1, 2}

\* What a call meets: nothing wrong, no session, a file its extractor
\* rejects, or a storage service that answers with an error.
Envs == {"ok", "noSession", "badFile", "storageDown"}

\* fileName = `${userId}/${timestamp}-${uploadFile.name}`
ObjectName(u) == [user |-> u.user, timestamp |-> u.timestamp, name |-> u.name]

\* The result of the call when no other call runs.
AloneResult(u) == IF u.env = "ok" THEN "document" ELSE "error"

\* The catch of processFileUpload: throw new Error('There was an error ...').
Throw(u) == [u EXCEPT !.pc = "done", !.result = "error"]

\* processFileUpload(file) is called: await supabase.auth.getSession().
StartUpload(c) ==
  /\ calls[c].pc = "idle"
  /\ \E user \in Users, name \in Names, env \in Envs :
       calls' = [calls EXCEPT ![c] = [NoUpload EXCEPT !.pc = "getSession", !.user = user,
                                                       !.name = name, !.env = env]]
  /\ UNCHANGED <<clock, bucket>>
  /\ UNCHANGED <<samplerVars, inputVars, chatVars, reading>>

\* The session arrives: throw if there is none, else timestamp = Date.now()
\* and the extractor (or compressImage) is awaited.
AwaitSession(c) ==
  /\ calls[c].pc = "getSession"
  /\ calls' = [calls EXCEPT ![c] = IF calls[c].env = "noSession"
                                   THEN Throw(calls[c])
                                   ELSE [calls[c] EXCEPT !.pc = "extract",
                                                         !.timestamp = clock]]
  /\ UNCHANGED <<clock, bucket>>
  /\ UNCHANGED <<samplerVars, inputVars, chatVars, reading>>

\* The extractor settles; then storage.from('documents').upload(fileName,
\* uploadFile, { upsert: false }) is awaited.
AwaitExtract(c) ==
  /\ calls[c].pc = "extract"
  /\ calls' = [calls EXCEPT ![c] = IF calls[c].env = "badFile"
                                   THEN Throw(calls[c])
                                   ELSE [calls[c] EXCEPT !.pc = "upload"]]
  /\ UNCHANGED <<clock, bucket>>
  /\ UNCHANGED <<samplerVars, inputVars, chatVars, reading>>

\* The upload settles: with upsert false the storage refuses a name that
\* exists; if (uploadError) throw uploadError; else the document is returned.
AwaitUpload(c) ==
  /\ calls[c].pc = "upload"
  /\ LET uploadError == calls[c].env = "storageDown" \/ ObjectName(calls[c]) \in bucket
     IN /\ calls' = [calls EXCEPT ![c] = IF uploadError
                                         THEN Throw(calls[c])
                                         ELSE [calls[c] EXCEPT !.pc = "done",
                                                               !.result = "document"]]
        /\ bucket' = IF uploadError THEN bucket ELSE bucket \cup {ObjectName(calls[c])}
  /\ UNCHANGED clock
  /\ UNCHANGED <<samplerVars, inputVars, chatVars, reading>>

\* A millisecond passes.
Tick ==
  /\ clock < MaxClock
  /\ clock' = clock + 1
  /\ UNCHANGED <<bucket, calls>>
  /\ UNCHANGED <<samplerVars, inputVars, chatVars, reading>>

NextUploads ==
  \/ \E c \in Calls : StartUpload(c)
  \/ \E c \in Calls : AwaitSession(c)
  \/ \E c \in Calls : AwaitExtract(c)
  \/ \E c \in Calls : AwaitUpload(c)
  \/ Tick

SpecUploads == Init /\ [][NextUploads]_vars

(***************************************************************************)
(* C18: concurrent uploads are independent.  In every interleaving of two  *)
(* calls of processFileUpload, each call that has returned has the result  *)
(* it has when it runs alone: a document unless its own session, file or   *)
(* storage request fails.                                                  *)
(***************************************************************************)
C18_Independent ==
  \A c \in Calls : calls[c].pc = "done" => calls[c].result = AloneResult(calls[c])

====
